---- MODULE Spec2Model ----
(***************************************************************************)
(* The three intake handlers of index.mjs (concern-analyze,                *)
(* generate-questions, final-report) as a state machine.                   *)
(*                                                                         *)
(* A handler runs synchronously from the arrival of the request to its     *)
(* first await (the fetch), and then from one await to the next:           *)
(*   arrival      validate, credential check, payload, prompt, fetch(...)  *)
(*   fetch        settles: resolved with a status, or rejected             *)
(*   text()       settles (non-ok status only)                             *)
(*   json()       settles (ok status only), then content extraction,       *)
(*                JSON.parse, normalisation and res.json                   *)
(* Each of these is one action.  Several invocations may be suspended at   *)
(* once; every invocation has its own locals (indexed by its slot).        *)
(*                                                                         *)
(* JavaScript values are records [t, s, n, items, f]: t the type tag, s    *)
(* the code units of a string, n the number (or 0/1 of a boolean), items   *)
(* the elements of an array, f the named properties of an object (or the   *)
(* expando properties of an array).  A JSON text is the sequence of its    *)
(* tokens.                                                                 *)
(***************************************************************************)
EXTENDS Integers, Sequences, FiniteSets, TLC

VARIABLES
  credential,      \* process.env.OPENAI_API_KEY
  pc,              \* per invocation: idle, awaitFetch, awaitText, awaitJson, done
  op,              \* per invocation: the route
  body,            \* per invocation: req.body
  payload,         \* per invocation: const payload
  outbox,          \* per invocation: the fetch calls it made, in order
  openaiResponse,  \* per invocation: const openaiResponse (ok, status)
  reply,           \* per invocation: what the provider delivered as body
  sent             \* per invocation: the responses written to res, in order

vars == <<credential, pc, op, body, payload, outbox, openaiResponse, reply, sent>>

\* ------------------------------------------------------------------ bounds

\* Invocations that may be suspended at the same time (SpecConcurrent).
MaxInFlight == 2

\* ------------------------------------------------------- JavaScript values

JVal(t, s, n, items, f) == [t |-> t, s |-> s, n |-> n, items |-> items, f |-> f]

Undefined == JVal("undefined", <<>>, 0, <<>>, <<>>)
Null      == JVal("null", <<>>, 0, <<>>, <<>>)
Bool(b)   == JVal("boolean", <<>>, IF b THEN 1 ELSE 0, <<>>, <<>>)
Num(n)    == JVal("number", <<>>, n, <<>>, <<>>)
Str(s)    == JVal("string", s, 0, <<>>, <<>>)
Arr(xs)   == JVal("array", <<>>, 0, xs, <<>>)
Obj(f)    == JVal("object", <<>>, 0, <<>>, f)

\* typeof v
TypeOf(v) == IF v.t \in {"null", "array", "object"} THEN "object" ELSE v.t

\* Array.isArray(v)
IsArray(v) == v.t = "array"

\* ToBoolean(v): what `if (v)`, `!v`, `!!v`, `v ? a : b` and `v || d` test
Truthy(v) ==
  CASE v.t \in {"undefined", "null"} -> FALSE
    [] v.t = "boolean" -> v.n = 1
    [] v.t = "number" -> v.n # 0
    [] v.t = "string" -> Len(v.s) > 0
    [] OTHER -> TRUE

\* v === null || v === undefined: what `??` and `?.` test
Nullish(v) == v.t \in {"undefined", "null"}

\* a ?? d
Coalesce(v, d) == IF Nullish(v) THEN d ELSE v

\* a || d
OrElse(v, d) == IF Truthy(v) THEN v ELSE d

\* v.k for a v that is neither null nor undefined (a primitive has none of
\* the properties the handlers read)
Get(v, k) ==
  IF v.t \in {"object", "array"} /\ k \in DOMAIN v.f THEN v.f[k] ELSE Undefined

\* the properties f with f.k = x
SetField(f, k, x) == [j \in (DOMAIN f) \cup {k} |-> IF j = k THEN x ELSE f[j]]

\* v after v.k = x, for an object or an array v
SetProp(v, k, x) == [v EXCEPT !.f = SetField(v.f, k, x)]

\* --------------------------------------------------------------- strings

WhiteSpace == {" ", "\t", "\n", "\r"}

RECURSIVE TrimStart(_)
TrimStart(s) ==
  IF s # <<>> /\ Head(s) \in WhiteSpace THEN TrimStart(Tail(s)) ELSE s

RECURSIVE TrimEnd(_)
TrimEnd(s) ==
  IF s # <<>> /\ s[Len(s)] \in WhiteSpace
    THEN TrimEnd(SubSeq(s, 1, Len(s) - 1)) ELSE s

\* String.prototype.trim
Trim(s) == TrimEnd(TrimStart(s))

\* ------------------------------------------------------------ JSON texts

Tok(k, s, n, id) == [k |-> k, s |-> s, n |-> n, id |-> id]
LBrace   == Tok("{", <<>>, 0, "")
RBrace   == Tok("}", <<>>, 0, "")
LBrack   == Tok("[", <<>>, 0, "")
RBrack   == Tok("]", <<>>, 0, "")
Comma    == Tok(",", <<>>, 0, "")
Colon    == Tok(":", <<>>, 0, "")
TNull    == Tok("null", <<>>, 0, "")
TTrue    == Tok("true", <<>>, 0, "")
TFalse   == Tok("false", <<>>, 0, "")
TNum(n)  == Tok("num", <<>>, n, "")
TStr(s)  == Tok("str", s, 0, "")     \* a string literal
TKey(id) == Tok("key", <<>>, 0, id)  \* a string literal naming a member
TWord(w) == Tok("word", <<>>, 0, w)  \* bare letters: no JSON token

ParseOk(v, i) == [ok |-> TRUE, v |-> v, i |-> i]
ParseFail == [ok |-> FALSE, v |-> Undefined, i |-> 0]

RECURSIVE ParseValue(_, _)
RECURSIVE ParseElements(_, _, _)
RECURSIVE ParseMembers(_, _, _)

\* value at toks[i]: the value and the index after it
ParseValue(toks, i) ==
  IF i > Len(toks) THEN ParseFail
  ELSE LET t == toks[i] IN
    CASE t.k = "null" -> ParseOk(Null, i + 1)
      [] t.k = "true" -> ParseOk(Bool(TRUE), i + 1)
      [] t.k = "false" -> ParseOk(Bool(FALSE), i + 1)
      [] t.k = "num" -> ParseOk(Num(t.n), i + 1)
      [] t.k = "str" -> ParseOk(Str(t.s), i + 1)
      [] t.k = "[" ->
           IF i + 1 <= Len(toks) /\ toks[i + 1].k = "]"
             THEN ParseOk(Arr(<<>>), i + 2)
             ELSE ParseElements(toks, i + 1, <<>>)
      [] t.k = "{" ->
           IF i + 1 <= Len(toks) /\ toks[i + 1].k = "}"
             THEN ParseOk(Obj(<<>>), i + 2)
             ELSE ParseMembers(toks, i + 1, <<>>)
      [] OTHER -> ParseFail

\* value (, value)* ] from toks[i], after the elements acc
ParseElements(toks, i, acc) ==
  LET e == ParseValue(toks, i) IN
  IF ~e.ok \/ e.i > Len(toks) THEN ParseFail
  ELSE IF toks[e.i].k = "," THEN ParseElements(toks, e.i + 1, Append(acc, e.v))
  ELSE IF toks[e.i].k = "]" THEN ParseOk(Arr(Append(acc, e.v)), e.i + 1)
  ELSE ParseFail

\* name : value (, name : value)* } from toks[i], after the members f; a
\* repeated name keeps its last value
ParseMembers(toks, i, f) ==
  IF i + 1 > Len(toks) \/ toks[i].k # "key" \/ toks[i + 1].k # ":" THEN ParseFail
  ELSE LET m == ParseValue(toks, i + 2) IN
    IF ~m.ok \/ m.i > Len(toks) THEN ParseFail
    ELSE IF toks[m.i].k = ","
      THEN ParseMembers(toks, m.i + 1, SetField(f, toks[i].id, m.v))
    ELSE IF toks[m.i].k = "}"
      THEN ParseOk(Obj(SetField(f, toks[i].id, m.v)), m.i + 1)
    ELSE ParseFail

\* JSON.parse(text): threw (SyntaxError) or the value v
JSONparse(toks) ==
  LET r == ParseValue(toks, 1) IN
  IF r.ok /\ r.i = Len(toks) + 1
    THEN [threw |-> FALSE, v |-> r.v]
    ELSE [threw |-> TRUE, v |-> Undefined]

RECURSIVE JoinText(_, _)
RECURSIVE ToText(_)

\* String(v), the text JSON.parse reads when handed a v that is no string
ToText(v) ==
  CASE v.t = "string" -> v.s
    [] v.t = "number" -> <<TNum(v.n)>>
    [] v.t = "boolean" -> <<IF v.n = 1 THEN TTrue ELSE TFalse>>
    [] v.t = "array" -> JoinText(v.items, 1)
    [] v.t = "object" -> <<LBrack, TWord("object"), TWord("Object"), RBrack>>
    [] v.t = "null" -> <<TNull>>
    [] OTHER -> <<TWord("undefined")>>

\* Array.prototype.join: null and undefined elements join as empty
JoinText(xs, i) ==
  IF i > Len(xs) THEN <<>>
  ELSE (IF Nullish(xs[i]) THEN <<>> ELSE ToText(xs[i]))
       \o (IF i < Len(xs) THEN <<Comma>> ELSE <<>>)
       \o JoinText(xs, i + 1)

\* ------------------------------------------------------------ validation

\* `return null` of a validator
NoError == "null"

\* the minimum of freeTextConcern.trim().length
MinConcernLength == 10

Low      == <<"L", "o", "w">>
Moderate == <<"M", "o", "d", "e", "r", "a", "t", "e">>
High     == <<"H", "i", "g", "h">>

\* ['Low', 'Moderate', 'High'].includes(v)
IsRiskLevel(v) == v.t = "string" /\ v.s \in {Low, Moderate, High}

\* typeof v !== 'string' || v.trim().length < n
NotStringOfTrimmedLength(v, n) == TypeOf(v) # "string" \/ Len(Trim(v.s)) < n

\* typeof v !== 'string' || !v.trim()
NotNonBlankString(v) == TypeOf(v) # "string" \/ ~Truthy(Str(Trim(v.s)))

\* !body || typeof body !== 'object'
NotAnObject(b) == ~Truthy(b) \/ TypeOf(b) # "object"

ConcernLengthUntrimmed(b) ==
  IF NotAnObject(b) THEN "Body must be a JSON object."
  ELSE IF TypeOf(Get(b, "freeTextConcern")) # "string"
          \/ Len(Get(b, "freeTextConcern").s) < MinConcernLength
    THEN "freeTextConcern is required and must be at least 10 characters."
  ELSE NoError

validateConcernRequest(b) ==
  IF NotAnObject(b) THEN "Body must be a JSON object."
  ELSE IF NotStringOfTrimmedLength(Get(b, "freeTextConcern"), MinConcernLength)
    THEN "freeTextConcern is required and must be at least 10 characters."
  ELSE NoError

validateGenerateQuestionsRequest(b) ==
  IF NotAnObject(b) THEN "Body must be an object."
  ELSE IF NotNonBlankString(Get(b, "concernType"))
    THEN "concernType is required and must be a non-empty string."
  ELSE IF NotNonBlankString(Get(b, "clinicalSummary"))
    THEN "clinicalSummary is required and must be a non-empty string."
  ELSE NoError

validateFinalReportRequest(b) ==
  IF NotAnObject(b) THEN "Body must be an object."
  ELSE IF ~IsRiskLevel(Get(b, "riskLevel"))
    THEN "riskLevel must be Low, Moderate, or High."
  ELSE IF NotNonBlankString(Get(b, "concernType")) THEN "concernType is required."
  ELSE IF NotNonBlankString(Get(b, "symptomSummary"))
    THEN "symptomSummary is required."
  ELSE IF ~IsArray(Get(b, "redFlags")) \/ ~IsArray(Get(b, "recommendations"))
    THEN "redFlags and recommendations must be arrays."
  ELSE NoError

Routes == {"concern-analyze", "generate-questions", "final-report"}

\* the validator the route calls first
Validate(o, b) ==
  CASE o = "concern-analyze" -> validateConcernRequest(b)
    [] o = "generate-questions" -> validateGenerateQuestionsRequest(b)
    [] o = "final-report" -> validateFinalReportRequest(b)

\* ------------------------------------------------------- payload, prompt

EnUS == <<"e", "n", "-", "U", "S">>

ConcernPayload(b) ==
  Obj([sessionId |-> Coalesce(Get(b, "sessionId"), Null),
       locale |-> Coalesce(Get(b, "locale"), Str(EnUS)),
       freeTextConcern |-> Get(b, "freeTextConcern"),
       ageYears |-> Coalesce(Get(b, "ageYears"), Null),
       sexAtBirth |-> Coalesce(Get(b, "sexAtBirth"), Null),
       currentPregnancyStatus |-> Coalesce(Get(b, "currentPregnancyStatus"), Null)])

QuestionsPayload(b) ==
  Obj([concernType |-> Get(b, "concernType"),
       clinicalSummary |-> Get(b, "clinicalSummary"),
       durationText |-> Coalesce(Get(b, "durationText"), Null),
       bodyLocations |-> IF IsArray(Get(b, "bodyLocations"))
                           THEN Get(b, "bodyLocations") ELSE Arr(<<>>),
       psychosocialFactorsMentioned |->
         Bool(Truthy(Get(b, "psychosocialFactorsMentioned")))])

FinalReportPayload(b) ==
  Obj([riskLevel |-> Get(b, "riskLevel"),
       concernType |-> Get(b, "concernType"),
       symptomSummary |-> Get(b, "symptomSummary"),
       redFlags |-> OrElse(Get(b, "redFlags"), Arr(<<>>)),
       recommendations |-> OrElse(Get(b, "recommendations"), Arr(<<>>))])

\* const payload of the route
Payload(o, b) ==
  CASE o = "concern-analyze" -> ConcernPayload(b)
    [] o = "generate-questions" -> QuestionsPayload(b)
    [] o = "final-report" -> FinalReportPayload(b)

\* the user message: its label line, the verbatim lines, the serialised object
UserPrompt(label, verbatim, json) ==
  [label |-> label, verbatim |-> verbatim, json |-> json]

buildUserPrompt(p) ==
  UserPrompt("Free-text concern from patient (verbatim):",
             Trim(Get(p, "freeTextConcern").s),
             Obj([ageYears |-> Coalesce(Get(p, "ageYears"), Null),
                  sexAtBirth |-> Coalesce(Get(p, "sexAtBirth"), Null),
                  currentPregnancyStatus |->
                    Coalesce(Get(p, "currentPregnancyStatus"), Null),
                  locale |-> Coalesce(Get(p, "locale"), Str(EnUS)),
                  sessionId |-> Coalesce(Get(p, "sessionId"), Null)]))

\* const userPrompt of the route
Prompt(o, p) ==
  CASE o = "concern-analyze" -> buildUserPrompt(p)
    [] o = "generate-questions" ->
         UserPrompt("Concern and summary from TrustMed AI:", <<>>, p)
    [] o = "final-report" ->
         UserPrompt("Risk assessment from TrustMed AI (computed by deterministic code):",
                    <<>>, p)

\* the system prompt constant the route sends
SystemPrompt(o) ==
  CASE o = "concern-analyze" -> "SYSTEM_PROMPT"
    [] o = "generate-questions" -> "QUESTIONS_SYSTEM_PROMPT"
    [] o = "final-report" -> "FINAL_REPORT_SYSTEM_PROMPT"

\* the arguments of fetch(...)
ChatCompletionCall(o, p, key) ==
  [url |-> "https://api.openai.com/v1/chat/completions",
   authorization |-> key,
   model |-> "gpt-5-nano",
   response_format |-> "json_object",
   system |-> SystemPrompt(o),
   user |-> Prompt(o, p)]

CredentialUnsetOnly(key) == key.t = "undefined"

\* !process.env.OPENAI_API_KEY
CredentialMissing(key) == ~Truthy(key)

\* -------------------------------------------------------------- responses

Res(status, kind, error, value) ==
  [status |-> status, kind |-> kind, error |-> error, value |-> value]

\* res.status(n).json({ error })
ResError(status, error) == Res(status, "error", error, Undefined)

\* JSON.stringify(v) as the caller reads it back: an array keeps its
\* elements and loses its named properties
Wire(v) == IF v.t = "array" THEN Arr(v.items) ELSE v

\* res.json(v)
ResJson(v) == Res(200, "json", "", Wire(v))

BadRequest(error) == ResError(400, error)
ConfigurationError == ResError(500, "Server configuration error.")
NoContent == ResError(502, "LLM returned no content.")
InvalidJson == ResError(502, "LLM returned invalid JSON.")
InternalError == ResError(500, "Internal server error.")

TransportFailureLeaks(status, text) == ResError(status, text)

\* the non-ok branch: status and text go to console.error only
TransportFailure(status, text) == ResError(502, "LLM request failed.")

OuterCatchRethrows(written) == written

\* the outer catch of a route, given the responses written so far
OuterCatch(written) == Append(written, InternalError)

\* ------------------------------------------------- extraction, normalising

Threw == [threw |-> TRUE, v |-> Undefined]
Value(v) == [threw |-> FALSE, v |-> v]

\* v[0] for a v that is neither null nor undefined
At0(v) ==
  CASE v.t = "array" -> IF Len(v.items) >= 1 THEN v.items[1] ELSE Undefined
    [] v.t = "object" -> Get(v, "0")
    [] v.t = "string" -> IF Len(v.s) >= 1 THEN Str(<<v.s[1]>>) ELSE Undefined
    [] OTHER -> Undefined

\* data.choices?.[0]?.message?.content
ExtractContent(data) ==
  IF Nullish(data) THEN Threw
  ELSE LET choices == Get(data, "choices")
           first == IF Nullish(choices) THEN Undefined ELSE At0(choices)
           message == IF Nullish(first) THEN Undefined ELSE Get(first, "message")
       IN Value(IF Nullish(message) THEN Undefined ELSE Get(message, "content"))

\* st.v.k = x (a module is strict code: the write throws on a primitive)
Assign(st, k, x) ==
  IF st.threw THEN st
  ELSE IF st.v.t \notin {"object", "array"} THEN Threw
  ELSE Value(SetProp(st.v, k, x))

\* if (!Array.isArray(st.v.k)) st.v.k = d
EnsureArray(st, k, d) ==
  IF st.threw THEN st
  ELSE IF Nullish(st.v) THEN Threw
  ELSE IF IsArray(Get(st.v, k)) THEN st
  ELSE Assign(st, k, d)

NormalizeConcern(parsed, p) ==
  LET s1 == IF Nullish(parsed) THEN Threw
            ELSE IF IsArray(Get(parsed, "candidateCategories")) THEN Value(parsed)
            ELSE Assign(Value(parsed), "candidateCategories",
                        IF Truthy(Get(parsed, "primaryCategory"))
                          THEN Arr(<<Get(parsed, "primaryCategory")>>)
                          ELSE Arr(<<>>))
      s2 == EnsureArray(s1, "safetyNotes", Arr(<<>>))
  IN IF s2.threw THEN s2
     ELSE IF ~Truthy(Get(s2.v, "sessionId")) /\ Truthy(Get(p, "sessionId"))
       THEN Assign(s2, "sessionId", Get(p, "sessionId"))
     ELSE s2

NormalizeQuestions(parsed, p) ==
  LET s1 == EnsureArray(Value(parsed), "questions", Arr(<<>>))
      s2 == EnsureArray(s1, "rationaleNotes", Arr(<<>>))
      s3 == EnsureArray(s2, "safetyNotes", Arr(<<>>))
  IN Assign(s3, "concernType", Get(p, "concernType"))

NormalizeFinalReport(parsed, p) ==
  LET s1 == EnsureArray(Value(parsed), "recommendations", Arr(<<>>))
      s2 == EnsureArray(s1, "safetyNotes", Arr(<<>>))
      s3 == Assign(s2, "riskLevel", Get(p, "riskLevel"))
  IN Assign(s3, "concernType", Get(p, "concernType"))

\* the statements between JSON.parse and res.json of the route
Normalize(o, parsed, p) ==
  CASE o = "concern-analyze" -> NormalizeConcern(parsed, p)
    [] o = "generate-questions" -> NormalizeQuestions(parsed, p)
    [] o = "final-report" -> NormalizeFinalReport(parsed, p)

\* the route from `const data = await openaiResponse.json()` resolved to its
\* response, given the responses written so far
AfterJson(o, data, p, written) ==
  LET c == ExtractContent(data) IN
  IF c.threw THEN OuterCatch(written)
  ELSE IF ~Truthy(c.v) THEN Append(written, NoContent)
  ELSE LET parsed == JSONparse(ToText(c.v)) IN
    IF parsed.threw THEN Append(written, InvalidJson)
    ELSE LET n == Normalize(o, parsed.v, p) IN
      IF n.threw THEN OuterCatch(written) ELSE Append(written, ResJson(n.v))

\* ------------------------------------------------------- request bodies

X(n) == [i \in 1..n |-> "x"]
Blank == <<" ", "\t", " ", "\n", " ", " ", " ", " ", " ", " ", "\r", " ">>

S1 == <<"s", "1">>
S2 == <<"s", "2">>
ChestPain == <<"C", "h", "e", "s", "t", " ", "p", "a", "i", "n">>
Headache == <<"H", "e", "a", "d", "a", "c", "h", "e">>
Summary == <<"t", "w", "o", " ", "d", "a", "y", "s">>
Note == <<"n", "o", "t", "e">>

\* the properties f without f.k
Without(f, k) == [j \in (DOMAIN f) \ {k} |-> f[j]]

Concern(text) == [freeTextConcern |-> text]

QuestionsFields ==
  [concernType |-> Str(ChestPain), clinicalSummary |-> Str(Summary)]

FinalReportFields ==
  [riskLevel |-> Str(High), concernType |-> Str(ChestPain),
   symptomSummary |-> Str(Summary), redFlags |-> Arr(<<>>),
   recommendations |-> Arr(<<>>)]

\* what express.json() may leave in req.body, and a few values it never does
NonObjectBodies ==
  <<Undefined, Null, Num(7), Str(X(12)), Bool(TRUE), Arr(<<>>),
    Arr(<<Obj(Concern(Str(X(12))))>>)>>

ConcernBodies ==
  <<Obj(<<>>),
    Obj(Concern(Num(1234567890))),
    Obj(Concern(Null)),
    Obj(Concern(Str(X(9)))),
    Obj(Concern(Str(<<" ">> \o X(9) \o <<" ">>))),
    Obj(Concern(Str(Blank))),
    Obj(Concern(Str(X(10)))),
    Obj(SetField(SetField(Concern(Str(<<" ">> \o X(10) \o <<"\n">>)),
                          "sessionId", Str(S1)), "ageYears", Num(41))),
    Obj(SetField(Concern(Str(X(11))), "sessionId", Str(<<>>)))>>

QuestionsBodies ==
  <<Obj(Without(QuestionsFields, "clinicalSummary")),
    Obj(Without(QuestionsFields, "concernType")),
    Obj(SetField(QuestionsFields, "concernType", Str(<<" ", " ">>))),
    Obj(SetField(QuestionsFields, "concernType", Num(3))),
    Obj(SetField(QuestionsFields, "clinicalSummary", Str(<<"\t">>))),
    Obj(SetField(QuestionsFields, "clinicalSummary", Arr(<<Str(Summary)>>))),
    Obj(QuestionsFields),
    Obj(SetField(SetField(SetField(QuestionsFields,
          "concernType", Str(<<" ">> \o Headache \o <<" ">>)),
          "bodyLocations", Str(Headache)),
          "psychosocialFactorsMentioned", Num(1)))>>

FinalReportBodies ==
  <<Obj(FinalReportFields),
    Obj(SetField(SetField(SetField(FinalReportFields,
          "riskLevel", Str(Low)),
          "redFlags", Arr(<<Str(Note)>>)),
          "recommendations", Arr(<<Str(Summary)>>))),
    Obj(SetField(FinalReportFields, "riskLevel", Str(Moderate))),
    Obj(SetField(FinalReportFields, "riskLevel", Str(<<"h", "i", "g", "h">>))),
    Obj(SetField(FinalReportFields, "riskLevel", Str(High \o <<" ">>))),
    Obj(SetField(FinalReportFields, "riskLevel", Num(1))),
    Obj(SetField(FinalReportFields, "riskLevel", Arr(<<Str(High)>>))),
    Obj(Without(FinalReportFields, "riskLevel")),
    Obj(SetField(FinalReportFields, "concernType", Str(<<" ">>))),
    Obj(Without(FinalReportFields, "concernType")),
    Obj(SetField(FinalReportFields, "symptomSummary", Str(<<>>))),
    Obj(SetField(FinalReportFields, "symptomSummary", Num(2))),
    Obj(Without(FinalReportFields, "symptomSummary")),
    Obj(Without(FinalReportFields, "redFlags")),
    Obj(SetField(FinalReportFields, "redFlags", Null)),
    Obj(SetField(FinalReportFields, "recommendations", Str(Summary))),
    Obj(SetField(FinalReportFields, "recommendations", Obj(<<>>))),
    Obj(Without(FinalReportFields, "recommendations"))>>

\* req.body of the requests of Spec
RequestBodies ==
  NonObjectBodies \o ConcernBodies \o QuestionsBodies \o FinalReportBodies

\* req.body of the requests of SpecConcurrent
ConcurrentBodies ==
  <<Obj(<<>>), ConcernBodies[8], QuestionsBodies[7], FinalReportBodies[1]>>

\* process.env.OPENAI_API_KEY: unset, empty, set
Credentials == {Undefined, Str(<<>>), Str(<<"s", "k", "-", "1">>)}

\* ------------------------------------------------------ provider replies

RECURSIVE JoinTokens(_, _)
JoinTokens(parts, i) ==
  IF i > Len(parts) THEN <<>>
  ELSE parts[i] \o (IF i < Len(parts) THEN <<Comma>> ELSE <<>>)
       \o JoinTokens(parts, i + 1)

ObjText(members) == <<LBrace>> \o JoinTokens(members, 1) \o <<RBrace>>
ArrText(elements) == <<LBrack>> \o JoinTokens(elements, 1) \o <<RBrack>>
Member(id, value) == <<TKey(id), Colon>> \o value
S(chars) == <<TStr(chars)>>

\* texts that are no JSON
NotJsonTexts ==
  <<<<TWord("not"), TWord("json")>>,
    <<LBrace, TKey("summary"), Colon, TStr(Summary)>>,
    <<LBrace, TKey("summary"), Colon, TStr(Summary), Comma, RBrace>>,
    <<LBrack, TNum(1), Comma, RBrack>>,
    <<LBrace, RBrace, LBrace, RBrace>>,
    <<TWord("json"), LBrace, RBrace>>>>

\* texts that are JSON and no JSON object
NonObjectTexts ==
  <<<<TNull>>, <<TNum(5)>>, S(ChestPain), <<TTrue>>, <<LBrack, RBrack>>,
    ArrText(<<ObjText(<<Member("riskLevel", S(Low))>>)>>)>>

ConcernTexts ==
  <<ObjText(<<Member("primaryCategory", S(ChestPain)),
              Member("clinicalSummary", S(Summary)),
              Member("psychosocialFactorsMentioned", <<TFalse>>)>>),
    ObjText(<<Member("sessionId", S(S1)),
              Member("primaryCategory", S(ChestPain)),
              Member("candidateCategories", ArrText(<<S(ChestPain), S(Headache)>>)),
              Member("clinicalSummary", S(Summary)),
              Member("bodyLocations", ArrText(<<S(Headache)>>)),
              Member("safetyNotes", ArrText(<<S(Note)>>))>>),
    ObjText(<<Member("sessionId", S(S2)),
              Member("primaryCategory", S(Headache)),
              Member("candidateCategories", ArrText(<<S(Headache)>>)),
              Member("safetyNotes", ArrText(<<>>))>>),
    ObjText(<<Member("sessionId", <<TNull>>),
              Member("primaryCategory", S(<<>>)),
              Member("candidateCategories", <<TNull>>),
              Member("bodyLocations", <<TNull>>),
              Member("safetyNotes", S(Note))>>),
    ObjText(<<Member("primaryCategory", S(Headache)),
              Member("candidateCategories", ObjText(<<>>)),
              Member("bodyLocations", S(Headache)),
              Member("safetyNotes", <<TNum(3)>>)>>)>>

QuestionsTexts ==
  <<ObjText(<<Member("concernType", S(ChestPain)),
              Member("questions", ArrText(<<S(Summary), S(Note)>>)),
              Member("rationaleNotes", ArrText(<<S(Note)>>)),
              Member("safetyNotes", ArrText(<<>>))>>),
    ObjText(<<Member("concernType", S(Headache)),
              Member("questions", <<TNull>>),
              Member("rationaleNotes", S(Note))>>)>>

FinalReportTexts ==
  <<ObjText(<<Member("riskLevel", S(High)),
              Member("concernType", S(ChestPain)),
              Member("summary", S(Summary)),
              Member("analysis", S(Summary)),
              Member("recommendations", ArrText(<<S(Summary)>>)),
              Member("disclaimer", S(Note)),
              Member("safetyNotes", ArrText(<<S(Note)>>))>>),
    ObjText(<<Member("riskLevel", S(Low)),
              Member("concernType", S(Headache)),
              Member("summary", S(Summary)),
              Member("recommendations", <<TNull>>)>>),
    ObjText(<<Member("summary", S(Summary)),
              Member("recommendations", S(Summary)),
              Member("safetyNotes", ObjText(<<>>))>>)>>

\* message.content texts the provider may return
ReplyTexts ==
  NotJsonTexts \o NonObjectTexts \o <<<<LBrace, RBrace>>>> \o ConcernTexts
  \o QuestionsTexts \o FinalReportTexts

\* the body of a chat completion whose first choice carries content c
CompletionOf(c) ==
  Obj([id |-> Str(<<"c", "1">>),
       choices |-> Arr(<<Obj([index |-> Num(0),
                              message |-> Obj([role |-> Str(<<"a">>),
                                               content |-> c])])>>)])

\* response bodies with no text in choices[0].message.content
ContentlessBodies ==
  <<Null, Num(5), Obj(<<>>),
    Obj([choices |-> Null]),
    Obj([choices |-> Arr(<<>>)]),
    Obj([choices |-> Arr(<<Null>>)]),
    Obj([choices |-> Arr(<<Obj(<<>>)>>)]),
    Obj([choices |-> Arr(<<Obj([message |-> Null])>>)]),
    Obj([choices |-> Arr(<<Obj([message |-> Obj(<<>>)])>>)]),
    CompletionOf(Null),
    CompletionOf(Str(<<>>))>>

\* response bodies whose content is no string
OddContentBodies ==
  <<CompletionOf(Num(5)), CompletionOf(Bool(TRUE)), CompletionOf(Arr(<<>>)),
    CompletionOf(Obj(<<>>))>>

\* what openaiResponse.json() may resolve with in Spec
ProviderBodies ==
  ContentlessBodies \o OddContentBodies
  \o [i \in 1..Len(ReplyTexts) |-> CompletionOf(Str(ReplyTexts[i]))]

\* what openaiResponse.json() may resolve with in SpecConcurrent
ConcurrentProviderBodies ==
  <<Null, CompletionOf(Str(ConcernTexts[3])), CompletionOf(Str(FinalReportTexts[2]))>>

\* the statuses fetch may resolve with
Statuses == {200, 429, 503}

\* what openaiResponse.text() may resolve with
ErrorTexts == {"", "Rate limit reached for gpt-5-nano"}

\* response.ok
IsOk(status) == status \in 200..299

\* ----------------------------------------------------------- invocations

Slots == 1..MaxInFlight

NoResponse == [ok |-> FALSE, status |-> 0]

NoReply ==
  [fetch |-> "none", status |-> 0, read |-> "none", text |-> "",
   data |-> Undefined]

Init ==
  /\ credential \in Credentials
  /\ pc = [r \in Slots |-> "idle"]
  /\ op = [r \in Slots |-> "none"]
  /\ body = [r \in Slots |-> Undefined]
  /\ payload = [r \in Slots |-> Undefined]
  /\ outbox = [r \in Slots |-> <<>>]
  /\ openaiResponse = [r \in Slots |-> NoResponse]
  /\ reply = [r \in Slots |-> NoReply]
  /\ sent = [r \in Slots |-> <<>>]

PayloadOfFirstSlot(r) == payload[1]

\* const payload, as the invocation in slot r reads it
LocalPayload(r) == payload[r]

\* A request arrives and its handler runs to the first await: validation, the
\* credential check, the payload, the prompt and the call of fetch.
Arrive(r, o, b) ==
  /\ pc[r] \in {"idle", "done"}
  /\ op' = [op EXCEPT ![r] = o]
  /\ body' = [body EXCEPT ![r] = b]
  /\ openaiResponse' = [openaiResponse EXCEPT ![r] = NoResponse]
  /\ reply' = [reply EXCEPT ![r] = NoReply]
  /\ LET error == Validate(o, b) IN
     IF error # NoError
       THEN /\ sent' = [sent EXCEPT ![r] = <<BadRequest(error)>>]
            /\ payload' = [payload EXCEPT ![r] = Undefined]
            /\ outbox' = [outbox EXCEPT ![r] = <<>>]
            /\ pc' = [pc EXCEPT ![r] = "done"]
     ELSE IF CredentialMissing(credential)
       THEN /\ sent' = [sent EXCEPT ![r] = <<ConfigurationError>>]
            /\ payload' = [payload EXCEPT ![r] = Undefined]
            /\ outbox' = [outbox EXCEPT ![r] = <<>>]
            /\ pc' = [pc EXCEPT ![r] = "done"]
     ELSE /\ sent' = [sent EXCEPT ![r] = <<>>]
          /\ payload' = [payload EXCEPT ![r] = Payload(o, b)]
          /\ outbox' = [outbox EXCEPT ![r] =
                          <<ChatCompletionCall(o, Payload(o, b), credential.s)>>]
          /\ pc' = [pc EXCEPT ![r] = "awaitFetch"]
  /\ UNCHANGED credential

ConcernAnalyze(r, b) == Arrive(r, "concern-analyze", b)
GenerateQuestions(r, b) == Arrive(r, "generate-questions", b)
FinalReport(r, b) == Arrive(r, "final-report", b)

\* await fetch(...) resolves with a response of the given status
FetchResolves(r, status) ==
  /\ pc[r] = "awaitFetch"
  /\ openaiResponse' =
       [openaiResponse EXCEPT ![r] = [ok |-> IsOk(status), status |-> status]]
  /\ reply' = [reply EXCEPT ![r].fetch = "resolved", ![r].status = status]
  /\ pc' = [pc EXCEPT ![r] = IF IsOk(status) THEN "awaitJson" ELSE "awaitText"]
  /\ UNCHANGED <<credential, op, body, payload, outbox, sent>>

\* await fetch(...) rejects: the outer catch answers
FetchRejects(r) ==
  /\ pc[r] = "awaitFetch"
  /\ reply' = [reply EXCEPT ![r].fetch = "rejected"]
  /\ sent' = [sent EXCEPT ![r] = OuterCatch(sent[r])]
  /\ pc' = [pc EXCEPT ![r] = "done"]
  /\ UNCHANGED <<credential, op, body, payload, outbox, openaiResponse>>

\* await openaiResponse.text() resolves (non-ok status)
TextResolves(r, text) ==
  /\ pc[r] = "awaitText"
  /\ reply' = [reply EXCEPT ![r].read = "resolved", ![r].text = text]
  /\ sent' = [sent EXCEPT ![r] =
                Append(sent[r], TransportFailure(openaiResponse[r].status, text))]
  /\ pc' = [pc EXCEPT ![r] = "done"]
  /\ UNCHANGED <<credential, op, body, payload, outbox, openaiResponse>>

\* await openaiResponse.text() rejects
TextRejects(r) ==
  /\ pc[r] = "awaitText"
  /\ reply' = [reply EXCEPT ![r].read = "rejected"]
  /\ sent' = [sent EXCEPT ![r] = OuterCatch(sent[r])]
  /\ pc' = [pc EXCEPT ![r] = "done"]
  /\ UNCHANGED <<credential, op, body, payload, outbox, openaiResponse>>

\* await openaiResponse.json() resolves (ok status); the handler runs to its end
JsonResolves(r, data) ==
  /\ pc[r] = "awaitJson"
  /\ reply' = [reply EXCEPT ![r].read = "resolved", ![r].data = data]
  /\ sent' = [sent EXCEPT ![r] = AfterJson(op[r], data, LocalPayload(r), sent[r])]
  /\ pc' = [pc EXCEPT ![r] = "done"]
  /\ UNCHANGED <<credential, op, body, payload, outbox, openaiResponse>>

\* await openaiResponse.json() rejects: the body is no JSON, or its stream fails
JsonRejects(r) ==
  /\ pc[r] = "awaitJson"
  /\ reply' = [reply EXCEPT ![r].read = "rejected"]
  /\ sent' = [sent EXCEPT ![r] = OuterCatch(sent[r])]
  /\ pc' = [pc EXCEPT ![r] = "done"]
  /\ UNCHANGED <<credential, op, body, payload, outbox, openaiResponse>>

\* the provider settles the await the invocation in slot r is suspended at
Settle(r) ==
  \/ \E status \in Statuses : FetchResolves(r, status)
  \/ FetchRejects(r)
  \/ \E text \in ErrorTexts : TextResolves(r, text)
  \/ TextRejects(r)
  \/ \E i \in 1..Len(ProviderBodies) : JsonResolves(r, ProviderBodies[i])
  \/ JsonRejects(r)

\* One request at a time, over every request body and every provider reply.
Next ==
  \/ \E i \in 1..Len(RequestBodies) : ConcernAnalyze(1, RequestBodies[i])
  \/ \E i \in 1..Len(RequestBodies) : GenerateQuestions(1, RequestBodies[i])
  \/ \E i \in 1..Len(RequestBodies) : FinalReport(1, RequestBodies[i])
  \/ \E status \in Statuses : FetchResolves(1, status)
  \/ FetchRejects(1)
  \/ \E text \in ErrorTexts : TextResolves(1, text)
  \/ TextRejects(1)
  \/ \E i \in 1..Len(ProviderBodies) : JsonResolves(1, ProviderBodies[i])
  \/ JsonRejects(1)

Spec == Init /\ [][Next]_vars

\* Every call of the provider resolves or rejects.
FairSpec == Spec /\ WF_vars(Settle(1))

\* MaxInFlight requests, each in its own invocation, arriving and in flight
\* together, the provider settling their calls in any order.
NextConcurrent ==
  \E r \in Slots :
    \/ /\ pc[r] = "idle"
       /\ \E i \in 1..Len(ConcurrentBodies) : ConcernAnalyze(r, ConcurrentBodies[i])
    \/ /\ pc[r] = "idle"
       /\ \E i \in 1..Len(ConcurrentBodies) : GenerateQuestions(r, ConcurrentBodies[i])
    \/ /\ pc[r] = "idle"
       /\ \E i \in 1..Len(ConcurrentBodies) : FinalReport(r, ConcurrentBodies[i])
    \/ \E status \in {200, 429} : FetchResolves(r, status)
    \/ FetchRejects(r)
    \/ TextResolves(r, "Rate limit reached for gpt-5-nano")
    \/ TextRejects(r)
    \/ \E i \in 1..Len(ConcurrentProviderBodies) :
         JsonResolves(r, ConcurrentProviderBodies[i])
    \/ JsonRejects(r)

SpecConcurrent == Init /\ [][NextConcurrent]_vars

\* ------------------------------------------------------------- the claims

Awaiting == {"awaitFetch", "awaitText", "awaitJson"}

\* the request contract of a route, as its interface states it
IsStringOfTrimmedLength(v, n) == v.t = "string" /\ Len(Trim(v.s)) >= n

MeetsContract(o, b) ==
  /\ b.t = "object"
  /\ CASE o = "concern-analyze" ->
            IsStringOfTrimmedLength(Get(b, "freeTextConcern"), 10)
       [] o = "generate-questions" ->
            /\ IsStringOfTrimmedLength(Get(b, "concernType"), 1)
            /\ IsStringOfTrimmedLength(Get(b, "clinicalSummary"), 1)
       [] o = "final-report" ->
            /\ Get(b, "riskLevel") \in {Str(Low), Str(Moderate), Str(High)}
            /\ IsStringOfTrimmedLength(Get(b, "concernType"), 1)
            /\ IsStringOfTrimmedLength(Get(b, "symptomSummary"), 1)
            /\ Get(b, "redFlags").t = "array"
            /\ Get(b, "recommendations").t = "array"
       [] OTHER -> FALSE

CredentialPresent == credential.t = "string" /\ Len(credential.s) > 0

\* the only response of a finished invocation that answered once
Answer(r) == sent[r][1]

AnsweredOnce(r) == pc[r] = "done" /\ Len(sent[r]) = 1

\* the content the provider's body carried, when it carried a text
ContentOf(r) == ExtractContent(reply[r].data)

GotText(r) ==
  /\ reply[r].read = "resolved"
  /\ ~ContentOf(r).threw
  /\ ContentOf(r).v.t = "string"
  /\ Len(ContentOf(r).v.s) > 0

GotJsonText(r) == GotText(r) /\ ~JSONparse(ContentOf(r).v.s).threw

\* C1: a request whose body breaks the contract of its route is rejected by
\* the validator; the route answers 400 with the validator's error and never
\* calls the provider, with or without the credential.
C1_InvalidRequestNeverReachesProvider ==
  \A r \in Slots :
    (pc[r] # "idle" /\ ~MeetsContract(op[r], body[r])) =>
      /\ Validate(op[r], body[r]) # NoError
      /\ pc[r] = "done"
      /\ sent[r] = <<BadRequest(Validate(op[r], body[r]))>>
      /\ outbox[r] = <<>>

\* a concern of nine characters between two spaces, rejected with the credential set
C1_Witness ==
  /\ CredentialPresent
  /\ pc[1] = "done"
  /\ op[1] = "concern-analyze"
  /\ Get(body[1], "freeTextConcern").t = "string"
  /\ Len(Get(body[1], "freeTextConcern").s) = 11
  /\ Len(Trim(Get(body[1], "freeTextConcern").s)) = 9
  /\ sent[1] = <<BadRequest("freeTextConcern is required and must be at least 10 characters.")>>
  /\ outbox[1] = <<>>

\* C2: a validated final-report request whose upstream text parses as JSON is
\* answered with the request's riskLevel and concernType; a validated
\* generate-questions request with the request's concernType.
C2_AuthoritativeFieldsFromRequest ==
  \A r \in Slots :
    (pc[r] = "done" /\ GotJsonText(r)) =>
      /\ op[r] = "final-report" =>
           /\ Len(sent[r]) = 1
           /\ Get(Answer(r).value, "riskLevel") = Get(body[r], "riskLevel")
           /\ Get(Answer(r).value, "concernType") = Get(body[r], "concernType")
      /\ op[r] = "generate-questions" =>
           /\ Len(sent[r]) = 1
           /\ Get(Answer(r).value, "concernType") = Get(body[r], "concernType")

\* the fields the response contract of a route declares as lists
ListFields(o) ==
  CASE o = "concern-analyze" -> {"candidateCategories", "bodyLocations", "safetyNotes"}
    [] o = "generate-questions" -> {"questions", "rationaleNotes", "safetyNotes"}
    [] o = "final-report" -> {"recommendations", "safetyNotes"}
    [] OTHER -> {}

\* C3: in every 200 response each field declared as a list is an array.
C3_ListFieldsAreArrays ==
  \A r \in Slots :
    (AnsweredOnce(r) /\ Answer(r).status = 200) =>
      \A k \in ListFields(op[r]) : Get(Answer(r).value, k).t = "array"

\* C4: a concern-analyze request that supplies a sessionId gets that sessionId
\* back in its 200 response, whatever sessionId the upstream reply carries.
C4_SessionIdFromRequest ==
  \A r \in Slots :
    (/\ AnsweredOnce(r)
     /\ op[r] = "concern-analyze"
     /\ Answer(r).status = 200
     /\ ~Nullish(Get(body[r], "sessionId"))) =>
      Get(Answer(r).value, "sessionId") = Get(body[r], "sessionId")

NoExtractableText(r) ==
  \/ reply[r].read = "rejected"
  \/ /\ reply[r].read = "resolved"
     /\ \/ Nullish(reply[r].data)
        \/ ContentOf(r).v \in {Undefined, Null, Str(<<>>)}

\* C6: a success status with no extractable text is answered 502.
C6_NoContentIs502 ==
  \A r \in Slots :
    (/\ pc[r] = "done"
     /\ reply[r].fetch = "resolved"
     /\ IsOk(reply[r].status)
     /\ NoExtractableText(r)) =>
      /\ Len(sent[r]) = 1
      /\ Answer(r).status = 502

\* C7: a returned text that is no JSON object (no JSON at all, or JSON that
\* is null, a primitive or an array) is answered 502 with the generic error,
\* never 500 and never 200.
C7_InvalidTextIs502 ==
  \A r \in Slots :
    (/\ pc[r] = "done"
     /\ GotText(r)
     /\ \/ JSONparse(ContentOf(r).v.s).threw
        \/ JSONparse(ContentOf(r).v.s).v.t # "object") =>
      sent[r] = <<InvalidJson>>

\* C8: an invocation has called the provider exactly once when its request
\* passed validation and the credential is present, and never otherwise; a
\* failed validation is answered 400 and a missing credential 500 with the
\* generic configuration error; no outcome of the call adds a call.
C8_OneCallPerValidRequest ==
  \A r \in Slots :
    pc[r] # "idle" =>
      IF Validate(op[r], body[r]) # NoError
        THEN outbox[r] = <<>> /\ AnsweredOnce(r) /\ Answer(r).status = 400
      ELSE IF ~CredentialPresent
        THEN outbox[r] = <<>> /\ sent[r] = <<ConfigurationError>>
      ELSE Len(outbox[r]) = 1

\* a call that ended in an upstream failure, and still one call
C8_Witness ==
  /\ pc[1] = "done"
  /\ Answer(1).status = 502
  /\ reply[1].read = "resolved"
  /\ Len(outbox[1]) = 1

\* the responses of a route for a request body, a credential and the
\* provider's reply to its call, run without interruption
Outcome(o, b, key, rep) ==
  IF Validate(o, b) # NoError THEN <<BadRequest(Validate(o, b))>>
  ELSE IF CredentialMissing(key) THEN <<ConfigurationError>>
  ELSE IF rep.fetch = "rejected" THEN <<InternalError>>
  ELSE IF rep.read = "rejected" THEN <<InternalError>>
  ELSE IF ~IsOk(rep.status) THEN <<TransportFailure(rep.status, rep.text)>>
  ELSE AfterJson(o, rep.data, Payload(o, b), <<>>)

\* C9: with several requests in flight and their calls settling in any
\* order, the response of each is the one its own body, the credential and
\* the reply to its own call give, and its call carries its own payload.
C9_ResponsesAreIndependent ==
  \A r \in Slots :
    /\ pc[r] = "done" => sent[r] = Outcome(op[r], body[r], credential, reply[r])
    /\ pc[r] \in Awaiting =>
         /\ sent[r] = <<>>
         /\ outbox[r] = <<ChatCompletionCall(op[r], Payload(op[r], body[r]),
                                             credential.s)>>

\* slot 2 answered 200 with its own risk level while slot 1, a different
\* route with a session id, is still suspended
C9_Witness ==
  /\ pc[1] = "awaitJson"
  /\ op[1] = "concern-analyze"
  /\ Get(body[1], "sessionId") = Str(S1)
  /\ pc[2] = "done"
  /\ op[2] = "final-report"
  /\ Answer(2).status = 200
  /\ Get(Answer(2).value, "riskLevel") = Str(High)

\* what holds of the responses of an invocation at every moment
OneResponse(r) ==
  /\ Len(sent[r]) <= 1
  /\ pc[r] \in Awaiting => sent[r] = <<>>
  /\ pc[r] = "done" =>
       /\ Len(sent[r]) = 1
       /\ Answer(r).status \in {200, 400, 500, 502}
       /\ (reply[r].fetch = "rejected" \/ reply[r].read = "rejected") =>
            sent[r] = <<InternalError>>
       /\ (GotJsonText(r) /\ JSONparse(ContentOf(r).v.s).v.t = "null") =>
            sent[r] = <<InternalError>>

\* C10: provided the provider settles its call, every request is answered
\* exactly once, with status 200, 400, 500 or 502; a rejected fetch, a failed
\* read of the provider's body and a failure while normalising are answered
\* 500 with the generic internal error.
C10_ExactlyOneResponse ==
  /\ [](\A r \in Slots : OneResponse(r))
  /\ \A r \in Slots : (pc[r] \in Awaiting) ~> (pc[r] = "done" /\ Len(sent[r]) = 1)

\* a normalisation that threw on the JSON text null, answered 500
C10_Witness ==
  /\ pc[1] = "done"
  /\ GotJsonText(1)
  /\ JSONparse(ContentOf(1).v.s).v.t = "null"
  /\ sent[1] = <<InternalError>>

\* ------------------------------------- what the routes do for object replies

\* the value JSON.parse gave for the text the provider returned
ParsedOf(r) == JSONparse(ContentOf(r).v.s).v

GotJsonObject(r) == GotJsonText(r) /\ ParsedOf(r).t = "object"

\* A reply that is a JSON object is answered 200 with the request's
\* riskLevel and concernType (final-report) or concernType (generate-questions).
ObjectReplyKeepsAuthoritativeFields ==
  \A r \in Slots :
    (pc[r] = "done" /\ GotJsonObject(r)) =>
      /\ AnsweredOnce(r) /\ Answer(r).status = 200
      /\ op[r] = "final-report" =>
           /\ Get(Answer(r).value, "riskLevel") = Get(body[r], "riskLevel")
           /\ Get(Answer(r).value, "concernType") = Get(body[r], "concernType")
      /\ op[r] = "generate-questions" =>
           Get(Answer(r).value, "concernType") = Get(body[r], "concernType")

\* A reply that is a JSON object is answered with arrays in every list field
\* the normaliser of the route coerces (all of them but bodyLocations).
ObjectReplyHasCoercedLists ==
  \A r \in Slots :
    (pc[r] = "done" /\ GotJsonObject(r)) =>
      \A k \in ListFields(op[r]) \ {"bodyLocations"} :
        Get(Answer(r).value, k).t = "array"

\* The request's sessionId is in the response when the reply's is falsy;
\* a truthy sessionId of the reply stands.
SessionIdCopiedWhenReplyHasNone ==
  \A r \in Slots :
    (pc[r] = "done" /\ op[r] = "concern-analyze" /\ GotJsonObject(r)) =>
      Get(Answer(r).value, "sessionId") =
        IF Truthy(Get(ParsedOf(r), "sessionId")) THEN Get(ParsedOf(r), "sessionId")
        ELSE IF Truthy(Get(body[r], "sessionId")) THEN Get(body[r], "sessionId")
        ELSE Get(ParsedOf(r), "sessionId")

\* A body that is JSON and not null, without content, is answered 502.
MissingContentIs502 ==
  \A r \in Slots :
    (/\ pc[r] = "done"
     /\ reply[r].read = "resolved"
     /\ IsOk(reply[r].status)
     /\ ~Nullish(reply[r].data)
     /\ ~Truthy(ContentOf(r).v)) =>
      sent[r] = <<NoContent>>

\* A text that is no JSON is answered 502.
UnparsableTextIs502 ==
  \A r \in Slots :
    (pc[r] = "done" /\ GotText(r) /\ JSONparse(ContentOf(r).v.s).threw) =>
      sent[r] = <<InvalidJson>>

====
